---- MODULE Spec2Model ----
(***************************************************************************)
(* A model of the GDPR-hub extraction / ingestion / retrieval pipeline:     *)
(*   DYN_weekly_vector_ingestion.py  (load_and_process_json,                *)
(*                                    create_or_update_vector_store, main)  *)
(*   DYN_weekly_case_export.py       (get_transformed_page_data,            *)
(*                                    run_weekly_job)                       *)
(*   01_get_knowledge.py             (get_candidate_titles, main)           *)
(*   03_smolagent_rag.py             (rag_with_reasoner)                    *)
(*   weekly_case_export.py           (get_page_data)                        *)
(***************************************************************************)
EXTENDS Naturals, Sequences, FiniteSets, TLC

VARIABLES
    \* ---- DYN_weekly_vector_ingestion.py ----
    file,           \* data/extracted_weekly.json: the sequence of records
    index,          \* the Chroma collection under chroma_db: a set of entries
    dirExists,      \* os.path.exists(persist_directory)
    nextKey,        \* number of entry keys (uuids) handed out so far
    runs,           \* number of ingestion runs started so far
    lastRun,        \* the run that finished last: its file and the index it left
    deleteLog,      \* every vectordb.delete call: the run and the ids passed
    pc,             \* per job, the position inside main()
    chunks,         \* per job, the chunks load_and_process_json returned
    runId,          \* per job, the number of its current run
    fileRead,       \* per job, the file content its run read
    startIndex,     \* per job, the index when create_or_update_vector_store began
    existed,        \* per job, what os.path.exists(persist_directory) returned
    deleteRaised,   \* per job, whether vectordb.delete raised in this run
    persistFailed,  \* per job, whether vectordb.persist raised in this run
    outcome,        \* per job, "none", "returned" or "raised"
    \* ---- DYN_weekly_case_export.py, 01_get_knowledge.py: one extraction run
    program,        \* which script runs: "weekly" or "articles"
    xpc,            \* position of the run: start, loop, write, done, failed, crashed
    xtitles,        \* the titles the run iterates over
    xi,             \* number of titles processed so far
    results,        \* results (run_weekly_job) / all_docs (main)
    output,         \* the JSON file the run wrote, if it did
    failed,         \* the titles (by position) with a failed source call
    xerr,           \* what ended the run early, "" when nothing did
    \* ---- 01_get_knowledge.py: get_candidate_titles
    tpc,            \* "loop", "returned" or "raised"
    limit_pages,    \* the cap passed to get_candidate_titles
    titles,         \* the titles accumulated so far
    apcontinue,     \* the continuation token of the last response
    requests,       \* the apcontinue parameter of every request sent
    responses,      \* every response received: its titles and its token
    \* ---- 03_smolagent_rag.py: rag_with_reasoner
    rpc,            \* "idle", "returned" or "raised"
    docs,           \* what vectordb.similarity_search returned
    rag,            \* what the call did: groups, context, model call, result
    \* ---- the summary step of get_transformed_page_data / get_page_data
    sVariant,       \* "DYN" (DYN_weekly_case_export.py) or "legacy"
    sSections,      \* the section list the source answered
    sTexts,         \* per section index, the rendered text the source holds
    sPc,            \* "off", "call", "done"
    sRequests,      \* the section index of every text request sent
    sRecord,        \* the record after the step
    \* ---- clean_html applied to a text, and to its own result
    cInput,         \* raw_html
    cOnce,          \* clean_html(raw_html)
    cTwice,         \* clean_html(clean_html(raw_html))
    cPc,            \* "off", "raw", "once", "twice"
    \* ---- the loop over params of get_transformed_page_data / get_page_data
    fVariant,       \* "DYN" or "legacy"
    fParams,        \* what re.findall returned: (key, val) pairs
    fIdx,           \* number of pairs the loop has taken
    fState,         \* transformed and temp_articles (DYN), data (legacy)
    fPc,            \* "off", "loop", "done"
    \* ---- extract_sections_from_html
    hEls,           \* what soup.find_all(["h2", "h3", "p", "li"]) yields
    hSections,      \* the sections returned
    hPc             \* "off", "call", "returned"

ingestVars == <<file, index, dirExists, nextKey, runs, lastRun, deleteLog, pc,
                chunks, runId, fileRead, startIndex, existed,
                deleteRaised, persistFailed, outcome>>

extractVars == <<program, xpc, xtitles, xi, results, output, failed, xerr>>

titleVars == <<tpc, limit_pages, titles, apcontinue, requests, responses>>

ragVars == <<rpc, docs, rag>>

summaryVars == <<sVariant, sSections, sTexts, sPc, sRequests, sRecord>>

cleanVars == <<cInput, cOnce, cTwice, cPc>>

fieldVars == <<fVariant, fParams, fIdx, fState, fPc>>

htmlVars == <<hEls, hSections, hPc>>

\* The pure steps checked on their own.
stepVars == <<summaryVars, cleanVars, fieldVars, htmlVars>>

vars == <<ingestVars, extractVars, titleVars, ragVars, stepVars>>

notIngest == <<extractVars, titleVars, ragVars, stepVars>>

notExtract == <<ingestVars, titleVars, ragVars, stepVars>>

notTitles == <<ingestVars, extractVars, ragVars, stepVars>>

notRag == <<ingestVars, extractVars, titleVars, stepVars>>

pipelineVars == <<ingestVars, extractVars, titleVars, ragVars>>

notSummary == <<pipelineVars, cleanVars, fieldVars, htmlVars>>

notClean == <<pipelineVars, summaryVars, fieldVars, htmlVars>>

notFields == <<pipelineVars, summaryVars, cleanVars, htmlVars>>

notHtml == <<pipelineVars, summaryVars, cleanVars, fieldVars>>

\* ------------------------------------------------------------------ bounds

\* Ingestion runs started in one behaviour (the scheduler runs main weekly).
MaxRuns == 2

\* ------------------------------------------------- records and the JSON file

\* Document ids a record of the file may carry; "" is a record without id
\* (item.get("id", "") of a record whose ECLI was never found).
DocIds == {"", "X", "Y"}

IdOrder == <<"", "X", "Y">>

\* Two texts a page may have at different times, and "absent".
TextVersions == {"v1", "v2"}

\* Length in characters of the page content built for a record.
ContentLen(ver) == IF ver = "v1" THEN 600 ELSE 1200

\* The files the export may have written: per id, no record or a record with
\* one of the two texts, listed in a fixed order.
FileOf(f) ==
    LET all == [i \in 1..Len(IdOrder) |->
                  [id |-> IdOrder[i], text |-> f[IdOrder[i]]]]
    IN  SelectSeq(all, LAMBDA r : r.text # "absent")

Files ==
    {FileOf(f) : f \in {g \in [DocIds -> TextVersions \cup {"absent"}] :
                           g[""] # "v2"}}

\* ------------------------------------------------------ load_and_process_json

chunk_size == 1000

chunk_overlap == 200

\* RecursiveCharacterTextSplitter on one document: windows of chunk_size
\* characters, each starting chunk_size - chunk_overlap after the previous
\* one; every chunk carries the document's metadata.
RECURSIVE SplitFrom(_, _)
SplitFrom(doc, from) ==
    LET to == IF from + chunk_size < doc.len THEN from + chunk_size ELSE doc.len
        c  == [metadata |-> doc.metadata,
               page_content |-> [id |-> doc.metadata.id, text |-> doc.text,
                                 from |-> from, to |-> to]]
    IN  IF to = doc.len
        THEN <<c>>
        ELSE <<c>> \o SplitFrom(doc, from + (chunk_size - chunk_overlap))

\* Document(page_content=content, metadata=metadata) of one item.
DocumentOf(item) ==
    [metadata |-> [id |-> item.id], text |-> item.text,
     len |-> ContentLen(item.text)]

RECURSIVE split_documents(_)
split_documents(documents) ==
    IF documents = <<>> THEN <<>>
    ELSE SplitFrom(Head(documents), 0) \o split_documents(Tail(documents))

load_and_process_json(data) ==
    split_documents([i \in 1..Len(data) |-> DocumentOf(data[i])])

\* ------------------------------------------------------------- the collection

Range(s) == {s[i] : i \in 1..Len(s)}

\* The key Chroma gives an entry added without explicit ids: a fresh uuid.
Uuid(n) == "uuid-" \o ToString(n)

\* vectordb.add_documents(chunks) / Chroma.from_documents(chunks): one new
\* entry per chunk, each under a fresh key.
AddDocuments(coll, cs, k0, run) ==
    coll \cup {[key |-> Uuid(k0 + i), id |-> cs[i].metadata.id,
                content |-> cs[i].page_content, run |-> run] : i \in 1..Len(cs)}

\* vectordb.delete(ids=...): Chroma removes the entries whose key is in ids.
CollectionDelete(coll, ids) == {e \in coll : e.key \notin Range(ids)}

\* ids_to_remove of create_or_update_vector_store: the metadata ids of the
\* chunks, empties filtered.
IdsToRemove_unfiltered(cs) == [i \in 1..Len(cs) |-> cs[i].metadata.id]

IdsToRemove(cs) ==
    SelectSeq([i \in 1..Len(cs) |-> cs[i].metadata.id], LAMBDA i : i # "")

\* ------------------------------------------------------------------- the jobs

Jobs == {1, 2}

NoRun == [file |-> <<>>, index |-> {}, run |-> 0]

IngestInit ==
    /\ file \in Files
    /\ index = {}
    /\ dirExists = FALSE
    /\ nextKey = 0
    /\ runs = 0
    /\ lastRun = NoRun
    /\ deleteLog = <<>>
    /\ pc = [p \in Jobs |-> "idle"]
    /\ chunks = [p \in Jobs |-> <<>>]
    /\ runId = [p \in Jobs |-> 0]
    /\ fileRead = [p \in Jobs |-> <<>>]
    /\ startIndex = [p \in Jobs |-> {}]
    /\ existed = [p \in Jobs |-> FALSE]
    /\ deleteRaised = [p \in Jobs |-> FALSE]
    /\ persistFailed = [p \in Jobs |-> FALSE]
    /\ outcome = [p \in Jobs |-> "none"]

IngestIdle ==
    /\ file = <<>>
    /\ index = {}
    /\ dirExists = FALSE
    /\ nextKey = 0
    /\ runs = 0
    /\ lastRun = NoRun
    /\ deleteLog = <<>>
    /\ pc = [p \in Jobs |-> "idle"]
    /\ chunks = [p \in Jobs |-> <<>>]
    /\ runId = [p \in Jobs |-> 0]
    /\ fileRead = [p \in Jobs |-> <<>>]
    /\ startIndex = [p \in Jobs |-> {}]
    /\ existed = [p \in Jobs |-> FALSE]
    /\ deleteRaised = [p \in Jobs |-> FALSE]
    /\ persistFailed = [p \in Jobs |-> FALSE]
    /\ outcome = [p \in Jobs |-> "none"]

\* The weekly export rewrites data/extracted_weekly.json (the file is read
\* only by Load, so a rewrite matters only before a run starts).
WriteFile ==
    /\ runs < MaxRuns
    /\ \A p \in Jobs : pc[p] = "idle"
    /\ \E f \in Files : f # file /\ file' = f
    /\ UNCHANGED notIngest
    /\ UNCHANGED <<index, dirExists, nextKey, runs, lastRun, deleteLog, pc,
                   chunks, runId, fileRead, startIndex, existed, deleteRaised,
                   persistFailed, outcome>>

\* main(): chunks = load_and_process_json(json_file_path).
Load(p) ==
    /\ pc[p] = "idle"
    /\ runs < MaxRuns
    /\ runs' = runs + 1
    /\ runId' = [runId EXCEPT ![p] = runs + 1]
    /\ chunks' = [chunks EXCEPT ![p] = load_and_process_json(file)]
    /\ fileRead' = [fileRead EXCEPT ![p] = file]
    /\ pc' = [pc EXCEPT ![p] = "check"]
    /\ UNCHANGED notIngest
    /\ UNCHANGED <<file, index, dirExists, nextKey, lastRun, deleteLog,
                   startIndex, existed, deleteRaised, persistFailed, outcome>>

\* create_or_update_vector_store: if os.path.exists(persist_directory).
CheckExists(p) ==
    /\ pc[p] = "check"
    /\ startIndex' = [startIndex EXCEPT ![p] = index]
    /\ existed' = [existed EXCEPT ![p] = dirExists]
    /\ pc' = [pc EXCEPT ![p] = IF dirExists THEN "delete" ELSE "create"]
    /\ UNCHANGED notIngest
    /\ UNCHANGED <<file, index, dirExists, nextKey, runs, lastRun, deleteLog,
                   chunks, runId, fileRead, deleteRaised, persistFailed,
                   outcome>>

\* Where the run goes when vectordb.delete raises: the except clause passes.
AfterDeleteError_propagates == "aborted"

AfterDeleteError == "add"

\* The try block: ids_to_remove, and vectordb.delete(ids=ids_to_remove) when
\* it is not empty; the call deletes, or raises and is ignored.
Delete(p) ==
    /\ pc[p] = "delete"
    /\ LET ids == IdsToRemove(chunks[p]) IN
         IF ids = <<>>
         THEN /\ pc' = [pc EXCEPT ![p] = "add"]
              /\ UNCHANGED <<index, deleteLog, deleteRaised, outcome>>
         ELSE /\ deleteLog' = Append(deleteLog, [run |-> runId[p], ids |-> ids])
              /\ \/ /\ index' = CollectionDelete(index, ids)
                    /\ pc' = [pc EXCEPT ![p] = "add"]
                    /\ UNCHANGED <<deleteRaised, outcome>>
                 \/ /\ deleteRaised' = [deleteRaised EXCEPT ![p] = TRUE]
                    /\ pc' = [pc EXCEPT ![p] = AfterDeleteError]
                    /\ outcome' = [outcome EXCEPT ![p] =
                           IF AfterDeleteError = "aborted" THEN "raised" ELSE @]
                    /\ UNCHANGED index
    /\ UNCHANGED notIngest
    /\ UNCHANGED <<file, dirExists, nextKey, runs, lastRun, chunks, runId,
                   fileRead, startIndex, existed, persistFailed>>

\* vectordb.add_documents(chunks).
Add(p) ==
    /\ pc[p] = "add"
    /\ index' = AddDocuments(index, chunks[p], nextKey, runId[p])
    /\ nextKey' = nextKey + Len(chunks[p])
    /\ pc' = [pc EXCEPT ![p] = "persist"]
    /\ UNCHANGED notIngest
    /\ UNCHANGED <<file, dirExists, runs, lastRun, deleteLog, chunks, runId,
                   fileRead, startIndex, existed, deleteRaised, persistFailed, outcome>>

\* The else branch: Chroma.from_documents(documents=chunks, ...,
\* persist_directory=...) creates the directory and adds the chunks.
Create(p) ==
    /\ pc[p] = "create"
    /\ index' = AddDocuments(index, chunks[p], nextKey, runId[p])
    /\ nextKey' = nextKey + Len(chunks[p])
    /\ dirExists' = TRUE
    /\ pc' = [pc EXCEPT ![p] = "persist"]
    /\ UNCHANGED notIngest
    /\ UNCHANGED <<file, runs, lastRun, deleteLog, chunks, runId, fileRead,
                   startIndex, existed, deleteRaised, persistFailed, outcome>>

\* What create_or_update_vector_store does when vectordb.persist raises: the
\* except clause passes and the function returns vectordb.
AfterPersistError == "returned"

\* vectordb.persist() inside try/except, then return vectordb.
Persist(p) ==
    /\ pc[p] = "persist"
    /\ \/ /\ outcome' = [outcome EXCEPT ![p] = "returned"]
          /\ UNCHANGED persistFailed
       \/ /\ persistFailed' = [persistFailed EXCEPT ![p] = TRUE]
          /\ outcome' = [outcome EXCEPT ![p] = AfterPersistError]
    /\ pc' = [pc EXCEPT ![p] = "done"]
    /\ UNCHANGED notIngest
    /\ UNCHANGED <<file, index, dirExists, nextKey, runs, lastRun, deleteLog,
                   chunks, runId, fileRead, startIndex, existed, deleteRaised>>

\* main() ends and its locals are gone; the scheduler may start the next run.
Finish(p) ==
    /\ pc[p] \in {"done", "aborted"}
    /\ lastRun' = [file |-> fileRead[p], index |-> index, run |-> runId[p]]
    /\ pc' = [pc EXCEPT ![p] = "idle"]
    /\ chunks' = [chunks EXCEPT ![p] = <<>>]
    /\ runId' = [runId EXCEPT ![p] = 0]
    /\ fileRead' = [fileRead EXCEPT ![p] = <<>>]
    /\ startIndex' = [startIndex EXCEPT ![p] = {}]
    /\ existed' = [existed EXCEPT ![p] = FALSE]
    /\ deleteRaised' = [deleteRaised EXCEPT ![p] = FALSE]
    /\ persistFailed' = [persistFailed EXCEPT ![p] = FALSE]
    /\ outcome' = [outcome EXCEPT ![p] = "none"]
    /\ UNCHANGED notIngest
    /\ UNCHANGED <<file, index, dirExists, nextKey, runs, deleteLog>>

JobStep(p) ==
    \/ Load(p)
    \/ CheckExists(p)
    \/ Delete(p)
    \/ Add(p)
    \/ Create(p)
    \/ Persist(p)
    \/ Finish(p)

\* ------------------------------------------- two ingestion processes at once

\* Two processes run DYN_weekly_vector_ingestion.py on the same chroma_db
\* directory; nothing in the code keeps one out while the other runs.  They
\* start on a fresh directory, or on the index an earlier run left.
ConcIngestInit ==
    \/ IngestInit
    \/ /\ file \in Files
       /\ index = AddDocuments({}, load_and_process_json(file), 0, 0)
       /\ dirExists = TRUE
       /\ nextKey = Len(load_and_process_json(file))
       /\ runs = 0
       /\ lastRun = [file |-> file, index |-> index, run |-> 0]
       /\ deleteLog = <<>>
       /\ pc = [p \in Jobs |-> "idle"]
       /\ chunks = [p \in Jobs |-> <<>>]
       /\ runId = [p \in Jobs |-> 0]
       /\ fileRead = [p \in Jobs |-> <<>>]
       /\ startIndex = [p \in Jobs |-> {}]
       /\ existed = [p \in Jobs |-> FALSE]
       /\ deleteRaised = [p \in Jobs |-> FALSE]
       /\ persistFailed = [p \in Jobs |-> FALSE]
       /\ outcome = [p \in Jobs |-> "none"]

\* The export rewrites the file while one process is running and the other
\* has not started.
WriteFileBetween ==
    /\ runs < MaxRuns
    /\ \E p \in Jobs : pc[p] = "idle"
    /\ \E p \in Jobs : pc[p] # "idle"
    /\ \E f \in Files : f # file /\ file' = f
    /\ UNCHANGED notIngest
    /\ UNCHANGED <<index, dirExists, nextKey, runs, lastRun, deleteLog, pc,
                   chunks, runId, fileRead, startIndex, existed, deleteRaised,
                   persistFailed, outcome>>

\* =============================================================== extraction

\* Titles of one listing handed to a run.
MaxTitles == 2

\* A string given as its space-separated words.
RECURSIVE Join(_, _)
Join(ws, sep) ==
    IF ws = <<>> THEN ""
    ELSE IF Len(ws) = 1 THEN ws[1]
    ELSE ws[1] \o sep \o Join(Tail(ws), sep)

Concat(ts) == Join(ts, "")

BASE_URL == "https://gdprhub.eu/index.php?title="

TitleOf(ws) == Join(ws, " ")

\* title.replace(' ', '_') behind the base url.
UrlOf(ws) == BASE_URL \o Join(ws, "_")

\* Page titles of the wiki, as words.
CaseTitles == {<<"AEPD", "2020">>, <<"CNIL", "SAN", "2019">>}

ArticleTitles ==
    {<<"Article", "17", "GDPR">>, <<"Article", "5", "GDPR">>,
     <<"GDPR", "Articles">>}

AllTitles == CaseTitles \cup ArticleTitles

TitleSeqs(S) == UNION {[1..n -> S] : n \in 0..MaxTitles}

\* ---------------------------------------------------------------- clean_html

\* Markup as a sequence of tokens: "<" and ">" are those characters, every
\* other token is a run of characters holding neither.
IsSpace(t) == t = " "

\* re.sub(r'<(script|style).*?>.*?</\1>', '', raw_html, DOTALL | IGNORECASE):
\* where such a block ends when one starts at the head of s, 0 when none does.
ScriptBlockEnd(s) ==
    IF Len(s) >= 2 /\ s[1] = "<" /\ s[2] \in {"script", "style"}
    THEN LET gts == {j \in 3..Len(s) : s[j] = ">"}
         IN  IF gts = {} THEN 0
             ELSE LET j == CHOOSE x \in gts : \A y \in gts : x <= y
                      ends == {k \in (j + 1)..(Len(s) - 2) :
                                 /\ s[k] = "<"
                                 /\ s[k + 1] = "/" \o s[2]
                                 /\ s[k + 2] = ">"}
                  IN  IF ends = {} THEN 0
                      ELSE (CHOOSE x \in ends : \A y \in ends : x <= y) + 2
    ELSE 0

RECURSIVE RemoveScriptBlocks(_)
RemoveScriptBlocks(s) ==
    IF s = <<>> THEN <<>>
    ELSE IF ScriptBlockEnd(s) > 0
         THEN RemoveScriptBlocks(SubSeq(s, ScriptBlockEnd(s) + 1, Len(s)))
         ELSE <<Head(s)>> \o RemoveScriptBlocks(Tail(s))

\* re.sub(r'<[^>]+>', '', clean): where a tag at the head of s ends, 0 when
\* none starts there.
TagEnd(s) ==
    IF Len(s) >= 3 /\ s[1] = "<" /\ s[2] # ">"
    THEN LET gts == {j \in 3..Len(s) : s[j] = ">"}
         IN  IF gts = {} THEN 0 ELSE CHOOSE x \in gts : \A y \in gts : x <= y
    ELSE 0

RECURSIVE RemoveTags(_)
RemoveTags(s) ==
    IF s = <<>> THEN <<>>
    ELSE IF TagEnd(s) > 0
         THEN RemoveTags(SubSeq(s, TagEnd(s) + 1, Len(s)))
         ELSE <<Head(s)>> \o RemoveTags(Tail(s))

\* html.unescape on one token.
UnescapeToken(t) ==
    IF t = "&lt;" THEN "<" ELSE IF t = "&gt;" THEN ">" ELSE t

Unescape(s) == [i \in 1..Len(s) |-> UnescapeToken(s[i])]

\* str.strip().
RECURSIVE LStrip(_)
LStrip(s) ==
    IF s # <<>> /\ IsSpace(Head(s)) THEN LStrip(Tail(s)) ELSE s

RECURSIVE RStrip(_)
RStrip(s) ==
    IF s # <<>> /\ IsSpace(s[Len(s)])
    THEN RStrip(SubSeq(s, 1, Len(s) - 1)) ELSE s

Strip(s) == RStrip(LStrip(s))

clean_html(raw_html) ==
    IF raw_html = <<>> THEN <<>>
    ELSE Strip(Unescape(RemoveTags(RemoveScriptBlocks(raw_html))))

\* ------------------------------------------------- get_transformed_page_data

None == "None"

Truthy(x) == x \notin {None, ""}

\* "English Summary" in s.get("line", "").
HasMarker(line) == line \in {"English Summary", "English Summary (EN)"}

\* next((s.get("index") for s in sections if ...), None).
RECURSIVE summary_idx(_)
summary_idx(sections) ==
    IF sections = <<>> THEN None
    ELSE IF HasMarker(Head(sections).line) THEN Head(sections).index
    ELSE summary_idx(Tail(sections))

\* v = re.sub(r'\[\[|\]\]', '', val.strip()), val given as tokens.
ValueOf(val) ==
    Concat(SelectSeq(Strip(val), LAMBDA t : t \notin {"[[", "]]"}))

\* k.startswith("GDPR Article") and "Link" in k, on the keys of the model.
StartsWithGdprArticle(k) ==
    k \in {"GDPR Article 1", "GDPR Article 2", "GDPR Article Link 1"}

ContainsLink(k) == k \in {"GDPR Article Link 1"}

\* if not v: continue
SkipsPair_never(v) == FALSE

SkipsPair(v) == v = ""

\* One turn of the loop over params: st is the record and temp_articles.
ApplyParam(st, k, val) ==
    LET v == ValueOf(val) IN
    IF SkipsPair(v) THEN st
    ELSE IF k = "ECLI"
         THEN [st EXCEPT !.rec.article_number = v, !.rec.id = v]
    ELSE IF k = "Type" THEN [st EXCEPT !.rec.type = v]
    ELSE IF k = "Jurisdiction" THEN [st EXCEPT !.rec.jurisdiction = v]
    ELSE IF k = "Fine" THEN [st EXCEPT !.rec.fine = v]
    ELSE IF k = "Currency" THEN [st EXCEPT !.rec.currency = v]
    ELSE IF k = "Date Decided" THEN [st EXCEPT !.rec.date = v]
    ELSE IF StartsWithGdprArticle(k) /\ ~ContainsLink(k)
         THEN [st EXCEPT !.temp_articles = Append(@, v)]
    ELSE st

RECURSIVE ParseParams(_, _)
ParseParams(st, params) ==
    IF params = <<>> THEN st
    ELSE ParseParams(ApplyParam(st, Head(params).key, Head(params).val),
                     Tail(params))

EmptyRecord(title) ==
    [id |-> "", article_number |-> "", title |-> TitleOf(title),
     url |-> UrlOf(title), type |-> "", jurisdiction |-> "", date |-> "",
     fine |-> "", currency |-> "", gdpr_articles |-> {}, text |-> ""]

\* get_transformed_page_data(title): resp holds what the three source calls
\* answer; fail names the call that raises ("none": no call does).  The
\* except clause prints and the record is returned as far as it was filled.
get_transformed_page_data(title, resp, fail) ==
    LET t0  == EmptyRecord(title)
        idx == summary_idx(resp.sections)
        t1  == IF Truthy(idx)
               THEN [t0 EXCEPT !.text = Concat(clean_html(resp.raw_text))]
               ELSE t0
        st  == ParseParams([rec |-> t1, temp_articles |-> <<>>], resp.params)
    IN  IF fail = "sections" THEN t0
        ELSE IF fail = "text" /\ Truthy(idx) THEN t0
        ELSE IF fail = "wikitext" THEN t1
        ELSE [st.rec EXCEPT !.gdpr_articles = Range(st.temp_articles)]

\* What the source answers for a page.
SectionLists ==
    {<<>>,
     <<[index |-> "1", line |-> "Facts"]>>,
     <<[index |-> "1", line |-> "Facts"],
       [index |-> "2", line |-> "English Summary"]>>,
     <<[index |-> "1", line |-> "English Summary (EN)"],
       [index |-> "2", line |-> "English Summary"]>>}

RawTexts ==
    {<<>>,
     <<"<", "p", ">", "Summary", "<", "/p", ">", " ">>,
     <<"<", "script", ">", "x", "<", "/script", ">", "a", "&lt;", "b">>}

ParamLists ==
    {<<>>,
     <<[key |-> "ECLI", val |-> <<" ", "E1">>],
       [key |-> "Type", val |-> <<"[[", "Complaint", "]]">>],
       [key |-> "GDPR Article 1", val |-> <<"5">>],
       [key |-> "GDPR Article 2", val |-> <<"5">>],
       [key |-> "GDPR Article Link 1", val |-> <<"[[", "Article 5", "]]">>]>>,
     <<[key |-> "ECLI", val |-> <<"E1">>],
       [key |-> "ECLI", val |-> <<" ">>],
       [key |-> "Fine", val |-> <<"[[", "]]">>]>>}

SourceAnswers ==
    [sections : SectionLists, raw_text : RawTexts, params : ParamLists]

\* ------------------------------------------------------ 01_get_knowledge.py

\* "article" in t and "gdpr" in t, t = title.lower(), on the words of the model.
ContainsArticle(w) == w \in {"Article", "Articles"}

ContainsGdpr(w) == w \in {"GDPR"}

looks_like_gdpr_article(title) ==
    /\ \E i \in 1..Len(title) : ContainsArticle(title[i])
    /\ \E i \in 1..Len(title) : ContainsGdpr(title[i])

IsDigits(w) == w \in {"17", "5", "2020", "2019"}

\* re.search(r"article\s+(\d+)", title, flags=re.I): group 1, or None.
ArticleNumber(title) ==
    LET hits == {i \in 1..(Len(title) - 1) :
                   title[i] = "Article" /\ IsDigits(title[i + 1])}
    IN  IF hits = {} THEN None
        ELSE title[(CHOOSE x \in hits : \A y \in hits : x <= y) + 1]

\* extract_sections_from_html: els is what soup.find_all(["h2", "h3", "p",
\* "li"]) yields, each element with its name and its get_text(" ", strip=True).
NonEmpty(parts) == SelectSeq(parts, LAMBDA t : t # "")

\* flush_section: the sections after it.
Flush_keeps_empty(acc) ==
    Append(acc.sections, [section_title |-> acc.title,
                          text |-> Join(NonEmpty(acc.parts), " ")])

Flush(acc) ==
    IF Join(NonEmpty(acc.parts), " ") # ""
    THEN Append(acc.sections, [section_title |-> acc.title,
                               text |-> Join(NonEmpty(acc.parts), " ")])
    ELSE acc.sections

RECURSIVE ScanElements(_, _)
ScanElements(acc, els) ==
    IF els = <<>> THEN Flush(acc)
    ELSE IF Head(els).name \in {"h2", "h3"}
         THEN ScanElements([sections |-> Flush(acc), title |-> Head(els).text,
                            parts |-> <<>>], Tail(els))
         ELSE ScanElements([acc EXCEPT !.parts = Append(@, Head(els).text)],
                           Tail(els))

extract_sections_from_html(els) ==
    ScanElements([sections |-> <<>>, title |-> "Intro", parts |-> <<>>], els)

\* build_article_docs(title, html); "article" + None is a TypeError.
BuildRaises(title) == ArticleNumber(title) = None

build_article_docs(title, els) ==
    LET sections == extract_sections_from_html(els) IN
    <<[id |-> "article" \o ArticleNumber(title),
       type |-> "article",
       title |-> TitleOf(title),
       article_number |-> ArticleNumber(title),
       url |-> UrlOf(title),
       text |-> Join([i \in 1..Len(sections) |-> sections[i].text], " ")]>>

Htmls ==
    {<<>>,
     <<[name |-> "p", text |-> "intro"], [name |-> "h2", text |-> "Commentary"],
       [name |-> "p", text |-> ""], [name |-> "li", text |-> "item"]>>}

\* ------------------------------------------------------------ the two runs

NoOutput == [written |-> FALSE, data |-> <<>>]

ExtractIdle ==
    /\ program = "none"
    /\ xpc = "off"
    /\ xtitles = <<>>
    /\ xi = 0
    /\ results = <<>>
    /\ output = NoOutput
    /\ failed = {}
    /\ xerr = ""

ExtractInit ==
    /\ program \in {"weekly", "articles"}
    /\ xpc = "start"
    /\ xtitles = <<>>
    /\ xi = 0
    /\ results = <<>>
    /\ output = NoOutput
    /\ failed = {}
    /\ xerr = ""

\* run_weekly_job: the recentchanges request and the list of changes; a
\* failure is caught by the outer except ("Job Failed").
WeeklyList ==
    /\ program = "weekly"
    /\ xpc = "start"
    /\ \/ /\ xpc' = "failed"
          /\ xerr' = "listing"
          /\ UNCHANGED xtitles
       \/ /\ \E changes \in TitleSeqs(CaseTitles) : xtitles' = changes
          /\ xpc' = "loop"
          /\ UNCHANGED xerr
    /\ UNCHANGED <<program, xi, results, output, failed>>
    /\ UNCHANGED notExtract

\* One turn of "for change in changes":
\* results.append(get_transformed_page_data(title)).
WeeklyTitle ==
    /\ program = "weekly"
    /\ xpc = "loop"
    /\ xi < Len(xtitles)
    /\ \E resp \in SourceAnswers :
       \E fail \in {"none", "sections", "text", "wikitext"} :
          /\ fail = "text" => Truthy(summary_idx(resp.sections))
          /\ results' = Append(results,
                 get_transformed_page_data(xtitles[xi + 1], resp, fail))
          /\ failed' = IF fail = "none" THEN failed ELSE failed \cup {xi + 1}
    /\ xi' = xi + 1
    /\ UNCHANGED <<program, xpc, xtitles, output, xerr>>
    /\ UNCHANGED notExtract

\* json.dump(results, f) after the loop.
WeeklyWrite ==
    /\ program = "weekly"
    /\ xpc = "loop"
    /\ xi = Len(xtitles)
    /\ output' = [written |-> TRUE, data |-> results]
    /\ xpc' = "done"
    /\ UNCHANGED <<program, xtitles, xi, results, failed, xerr>>
    /\ UNCHANGED notExtract

\* main of 01_get_knowledge.py: get_candidate_titles(prefix="A") (an error
\* of a listing request is not caught) and the filter by
\* looks_like_gdpr_article.
ArticlesDiscover ==
    /\ program = "articles"
    /\ xpc = "start"
    /\ \/ /\ xpc' = "crashed"
          /\ xerr' = "listing"
          /\ UNCHANGED xtitles
       \/ /\ \E got \in TitleSeqs(AllTitles) :
                xtitles' = SelectSeq(got, looks_like_gdpr_article)
          /\ xpc' = "loop"
          /\ UNCHANGED xerr
    /\ UNCHANGED <<program, xi, results, output, failed>>
    /\ UNCHANGED notExtract

\* One turn of "for title in article_titles": fetch_page_html (requests
\* errors and raise_for_status are not caught), build_article_docs,
\* all_docs.extend(docs).
ArticlesTitle ==
    /\ program = "articles"
    /\ xpc = "loop"
    /\ xi < Len(xtitles)
    /\ \/ /\ xpc' = "crashed"
          /\ xerr' = "transport"
          /\ failed' = failed \cup {xi + 1}
          /\ UNCHANGED <<xi, results>>
       \/ /\ BuildRaises(xtitles[xi + 1])
          /\ xpc' = "crashed"
          /\ xerr' = "TypeError"
          /\ UNCHANGED <<xi, results, failed>>
       \/ /\ ~BuildRaises(xtitles[xi + 1])
          /\ \E html \in Htmls :
                results' = results \o build_article_docs(xtitles[xi + 1], html)
          /\ xi' = xi + 1
          /\ UNCHANGED <<xpc, xerr, failed>>
    /\ UNCHANGED <<program, xtitles, output>>
    /\ UNCHANGED notExtract

\* w.write(json.dumps(all_docs, ...)) after the loop.
ArticlesWrite ==
    /\ program = "articles"
    /\ xpc = "loop"
    /\ xi = Len(xtitles)
    /\ output' = [written |-> TRUE, data |-> results]
    /\ xpc' = "done"
    /\ UNCHANGED <<program, xtitles, xi, results, failed, xerr>>
    /\ UNCHANGED notExtract

ExtractNext ==
    \/ WeeklyList
    \/ WeeklyTitle
    \/ WeeklyWrite
    \/ ArticlesDiscover
    \/ ArticlesTitle
    \/ ArticlesWrite

\* ===================================================== get_candidate_titles

\* Listing requests of one call of get_candidate_titles.
MaxRequests == 3

\* The largest cap (limit_pages) a call is given.
MaxLimit == 3

\* The titles a listing page may carry, and the continuation tokens.
ListingTitles == {<<"Article", "17", "GDPR">>, <<"AEPD", "2020">>}

Tokens == {"c1", "c2"}

\* if not apcontinue or len(titles) >= limit_pages: break
StopLoop_beyond(tok, n, limit) == ~Truthy(tok) \/ n > limit

StopLoop(tok, n, limit) == ~Truthy(tok) \/ n >= limit

\* params["apcontinue"] is set only if apcontinue is truthy.
SentToken(tok) == IF Truthy(tok) THEN tok ELSE None

TitlesIdle ==
    /\ tpc = "idle"
    /\ limit_pages = 0
    /\ titles = <<>>
    /\ apcontinue = None
    /\ requests = <<>>
    /\ responses = <<>>

TitlesInit ==
    /\ tpc = "loop"
    /\ limit_pages \in 1..MaxLimit
    /\ titles = <<>>
    /\ apcontinue = None
    /\ requests = <<>>
    /\ responses = <<>>

\* One turn of "while True": the request, raise_for_status, the titles of
\* data["query"]["allpages"] appended, the token taken, the break test.
ListingRequest ==
    /\ tpc = "loop"
    /\ Len(requests) < MaxRequests
    /\ requests' = Append(requests, SentToken(apcontinue))
    /\ \/ /\ tpc' = "raised"
          /\ UNCHANGED <<titles, apcontinue, responses>>
       \/ \E page \in TitleSeqs(ListingTitles) : \E tok \in Tokens \cup {None} :
             /\ responses' = Append(responses, [titles |-> page, token |-> tok])
             /\ titles' = titles \o [i \in 1..Len(page) |-> TitleOf(page[i])]
             /\ apcontinue' = tok
             /\ tpc' = IF StopLoop(tok, Len(titles'), limit_pages)
                       THEN "returned" ELSE "loop"
    /\ UNCHANGED limit_pages
    /\ UNCHANGED notTitles

TitlesNext == ListingRequest

\* ========================================================= rag_with_reasoner

\* similarity_search(user_query, k=5)
K == 5

\* What the index holds: chunks of the records the two extractions build,
\* an article page and two case pages, each chunk with the record's metadata.
EcliAnswer(e) ==
    [sections |-> <<>>, raw_text |-> <<>>,
     params |-> <<[key |-> "ECLI", val |-> <<e>>]>>]

StoredRecords ==
    {build_article_docs(<<"Article", "17", "GDPR">>, <<>>)[1],
     get_transformed_page_data(<<"AEPD", "2020">>, EcliAnswer("17"), "none"),
     get_transformed_page_data(<<"CNIL", "SAN", "2019">>, EcliAnswer("E1"),
                               "none")}

\* load_and_process_json: the metadata of a chunk of record r.
MetadataOf(r) ==
    [id |-> r.id, title |-> r.title, article_number |-> r.article_number,
     url |-> r.url]

StoredChunks ==
    {[metadata |-> MetadataOf(r), page_content |-> r.id \o c] :
        r \in StoredRecords, c \in {"#1", "#2"}}

Retrievals == UNION {[1..n -> StoredChunks] : n \in 0..K}

\* The keys of articles_dict in the order sorted() gives them.
KeyOrder == <<"", "17", "5", "E1", "Unknown">>

\* The key a chunk is filed under: metadata.get('article_number', 'Unknown').
GroupKey(doc) == doc.metadata.article_number

\* How many chunks of a group go into its content: chunks[:2].
ChunksUsed == 2

\* articles_dict[key] after the loop over docs: title, id and url of the
\* first chunk filed under key, and the page_content of all of them in order.
GroupOf(ds, key) ==
    LET mine  == SelectSeq(ds, LAMBDA d : GroupKey(d) = key)
        first == mine[1].metadata
        cs    == [i \in 1..Len(mine) |-> mine[i].page_content]
        used  == SubSeq(cs, 1, IF Len(cs) < ChunksUsed THEN Len(cs)
                               ELSE ChunksUsed)
    IN  [num |-> key, title |-> first.title, id |-> first.id,
         url |-> first.url, chunks |-> cs,
         content |-> Join(used, "\n\n[...continued...]\n\n")]

\* sorted(articles_dict.items()): one block per key, in key order.
Groups(ds) ==
    LET keys == SelectSeq(KeyOrder,
                    LAMBDA k : \E i \in 1..Len(ds) : GroupKey(ds[i]) = k)
    IN  [i \in 1..Len(keys) |-> GroupOf(ds, keys[i])]

NoCall == [groups |-> <<>>, modelCalled |-> FALSE, contextEmpty |-> FALSE,
           result |-> "", error |-> ""]

RagIdle ==
    /\ rpc = "off"
    /\ docs = <<>>
    /\ rag = NoCall

RagInit ==
    /\ rpc = "idle"
    /\ docs = <<>>
    /\ rag = NoCall

\* One call of the tool: the search, the assert on its result, the groups
\* and the context, and the call of the generation model.  modelOk: whether
\* reasoning_model(...) answers or raises (the except clauses then build an
\* error text).
rag_with_reasoner ==
    /\ rpc = "idle"
    /\ \E ds \in Retrievals : \E modelOk \in BOOLEAN :
          /\ docs' = ds
          /\ IF Len(ds) = 0
             THEN /\ rpc' = "raised"
                  /\ rag' = [NoCall EXCEPT !.error = "AssertionError"]
             ELSE /\ rpc' = "returned"
                  /\ rag' = [groups |-> Groups(ds),
                             modelCalled |-> TRUE,
                             contextEmpty |-> Groups(ds) = <<>>,
                             result |-> IF modelOk THEN "response"
                                        ELSE "Error generating response",
                             error |-> ""]
    /\ UNCHANGED notRag

RagNext == rag_with_reasoner

\* ====================================================== the steps on their own

\* ------------------------------------------------------- the summary step

\* Headings of one section list.
MaxSections == 2

\* The headings a section list may carry: their index and their line.  A
\* heading the wiki cannot address as a section has the index "".
SummaryHeadings ==
    {[index |-> "1", line |-> "Facts"],
     [index |-> "2", line |-> "English Summary"],
     [index |-> "3", line |-> "English Summary (EN)"],
     [index |-> "", line |-> "English Summary"],
     [index |-> "4", line |-> "English summary"]}

SectionSeqs == UNION {[1..n -> SummaryHeadings] : n \in 0..MaxSections}

SummaryIndexes == {h.index : h \in SummaryHeadings} \ {""}

\* The rendered text the source holds for a section.
SummaryTexts ==
    {<<"<", "p", ">", "Summary", "<", "/p", ">", " ">>, <<"Other">>}

StepTitle == <<"AEPD", "2020">>

\* The for loop of get_page_data with its break: the index of the first
\* section whose line contains the marker, None when the loop finds none.
RECURSIVE summary_index(_)
summary_index(sections) ==
    IF sections = <<>> THEN None
    ELSE IF HasMarker(Head(sections).line) THEN Head(sections).index
    ELSE summary_index(Tail(sections))

\* data = {"Page Title": title} of get_page_data.
LegacyRecord(title) == "Page Title" :> TitleOf(title)

SummaryIdle ==
    /\ sVariant = "none"
    /\ sSections = <<>>
    /\ sTexts = <<>>
    /\ sPc = "off"
    /\ sRequests = <<>>
    /\ sRecord = <<>>

SummaryInit ==
    /\ sVariant \in {"DYN", "legacy"}
    /\ sSections \in SectionSeqs
    /\ sTexts \in [SummaryIndexes -> SummaryTexts]
    /\ sPc = "call"
    /\ sRequests = <<>>
    /\ sRecord = IF sVariant = "DYN" THEN EmptyRecord(StepTitle)
                 ELSE LegacyRecord(StepTitle)

\* get_transformed_page_data from the section list to the text of the
\* record: the request of the section's text is sent only "if summary_idx";
\* when it raises, the except clause prints and the record is returned as
\* it is.
SummaryStepDYN ==
    /\ sVariant = "DYN"
    /\ sPc = "call"
    /\ LET idx == summary_idx(sSections) IN
       IF Truthy(idx)
       THEN /\ sRequests' = Append(sRequests, idx)
            /\ \/ /\ sRecord' = [sRecord EXCEPT
                                   !.text = Concat(clean_html(sTexts[idx]))]
                  /\ sPc' = "done"
               \/ /\ sRecord' = sRecord
                  /\ sPc' = "caught"
       ELSE /\ sPc' = "done"
            /\ UNCHANGED <<sRequests, sRecord>>
    /\ UNCHANGED <<sVariant, sSections, sTexts>>
    /\ UNCHANGED notSummary

\* get_page_data from the section list to data["Summary"].
SummaryStepLegacy ==
    /\ sVariant = "legacy"
    /\ sPc = "call"
    /\ LET idx == summary_index(sSections) IN
       IF Truthy(idx)
       THEN /\ sRequests' = Append(sRequests, idx)
            /\ \/ /\ sRecord' = sRecord @@
                                ("Summary" :> Concat(clean_html(sTexts[idx])))
                  /\ sPc' = "done"
               \/ /\ sRecord' = sRecord
                  /\ sPc' = "caught"
       ELSE /\ sRecord' = sRecord @@ ("Summary" :> "No Summary found")
            /\ sPc' = "done"
            /\ UNCHANGED sRequests
    /\ UNCHANGED <<sVariant, sSections, sTexts>>
    /\ UNCHANGED notSummary

SummaryNext ==
    \/ SummaryStepDYN
    \/ SummaryStepLegacy

\* ------------------------------------------------- clean_html, twice over

\* Tokens of one raw text.
MaxLen == 4

\* The tokens a raw text is made of.
HtmlTokens == {"<", ">", "script", "/script", "a", " ", "&lt;", "&gt;"}

RawHtmls == UNION {[1..n -> HtmlTokens] : n \in 0..MaxLen}

CleanIdle ==
    /\ cInput = <<>>
    /\ cOnce = <<>>
    /\ cTwice = <<>>
    /\ cPc = "off"

CleanInit ==
    /\ cInput \in RawHtmls
    /\ cOnce = <<>>
    /\ cTwice = <<>>
    /\ cPc = "raw"

\* transformed["text"] = clean_html(raw_text).
CleanOnce ==
    /\ cPc = "raw"
    /\ cOnce' = clean_html(cInput)
    /\ cPc' = "once"
    /\ UNCHANGED <<cInput, cTwice>>
    /\ UNCHANGED notClean

\* clean_html on the text clean_html returned.
CleanAgain ==
    /\ cPc = "once"
    /\ cTwice' = clean_html(cOnce)
    /\ cPc' = "twice"
    /\ UNCHANGED <<cInput, cOnce>>
    /\ UNCHANGED notClean

CleanNext ==
    \/ CleanOnce
    \/ CleanAgain

\* ---------------------------------------------------- the loop over params

\* Pairs re.findall returns for one wikitext.
MaxParams == 3

\* The keys and the values (as tokens) of the pairs.
ParamKeys == {"ECLI", "Fine", "GDPR Article 1"}

ParamVals ==
    {<<"E1">>, <<" ", "E2", " ">>, <<" ">>, <<"[[", "]]">>,
     <<"[[", " ", "]]">>}

ParamPairs == [key : ParamKeys, val : ParamVals]

ParamSeqs == UNION {[1..n -> ParamPairs] : n \in 0..MaxParams}

\* One turn of the loop of get_page_data: k = key.strip().replace("_", " "),
\* "if k and v: data[k] = v".
LegacyApplyParam(data, k, val) ==
    LET v == ValueOf(val) IN
    IF k # "" /\ v # ""
    THEN [x \in (DOMAIN data) \cup {k} |-> IF x = k THEN v ELSE data[x]]
    ELSE data

FieldsIdle ==
    /\ fVariant = "none"
    /\ fParams = <<>>
    /\ fIdx = 0
    /\ fState = <<>>
    /\ fPc = "off"

FieldsInit ==
    /\ fVariant \in {"DYN", "legacy"}
    /\ fParams \in ParamSeqs
    /\ fIdx = 0
    /\ fState = IF fVariant = "DYN"
                THEN [rec |-> EmptyRecord(StepTitle), temp_articles |-> <<>>]
                ELSE LegacyRecord(StepTitle)
    /\ fPc = "loop"

\* One turn of "for key, val in params".
ParamTurn ==
    /\ fPc = "loop"
    /\ fIdx < Len(fParams)
    /\ fState' = IF fVariant = "DYN"
                 THEN ApplyParam(fState, fParams[fIdx + 1].key,
                                 fParams[fIdx + 1].val)
                 ELSE LegacyApplyParam(fState, fParams[fIdx + 1].key,
                                       fParams[fIdx + 1].val)
    /\ fIdx' = fIdx + 1
    /\ UNCHANGED <<fVariant, fParams, fPc>>
    /\ UNCHANGED notFields

\* After the loop: transformed["gdpr_articles"] = list(set(temp_articles)).
ParamsDone ==
    /\ fPc = "loop"
    /\ fIdx = Len(fParams)
    /\ fState' = IF fVariant = "DYN"
                 THEN [fState EXCEPT
                         !.rec.gdpr_articles = Range(fState.temp_articles)]
                 ELSE fState
    /\ fPc' = "done"
    /\ UNCHANGED <<fVariant, fParams, fIdx>>
    /\ UNCHANGED notFields

FieldsNext ==
    \/ ParamTurn
    \/ ParamsDone

\* ----------------------------------------- extract_sections_from_html alone

\* Elements of one page.
MaxEls == 4

\* The elements find_all may yield: a heading or a paragraph / list item,
\* with its stripped text.
PageElements ==
    {[name |-> "h2", text |-> "A"], [name |-> "h3", text |-> "B"],
     [name |-> "h2", text |-> ""], [name |-> "p", text |-> "x"],
     [name |-> "li", text |-> "y"], [name |-> "p", text |-> ""]}

ElementSeqs == UNION {[1..n -> PageElements] : n \in 0..MaxEls}

HtmlIdle ==
    /\ hEls = <<>>
    /\ hSections = <<>>
    /\ hPc = "off"

HtmlInit ==
    /\ hEls \in ElementSeqs
    /\ hSections = <<>>
    /\ hPc = "call"

\* sections = extract_sections_from_html(html).
ExtractSections ==
    /\ hPc = "call"
    /\ hSections' = extract_sections_from_html(hEls)
    /\ hPc' = "returned"
    /\ UNCHANGED hEls
    /\ UNCHANGED notHtml

HtmlNext == ExtractSections

\* ==================================================== the specifications

\* No pipeline component runs.
PipelineIdle == IngestIdle /\ ExtractIdle /\ TitlesIdle /\ RagIdle

\* No step is checked on its own.
StepsIdle == SummaryIdle /\ CleanIdle /\ FieldsIdle /\ HtmlIdle

\* One scheduled process: schedule.run_pending() runs main() to its end
\* before it starts it again.
Init == IngestInit /\ ExtractIdle /\ TitlesIdle /\ RagIdle /\ StepsIdle

Next ==
    \/ WriteFile
    \/ JobStep(1)

Spec == Init /\ [][Next]_vars

\* Two ingestion processes on one directory.
ConcInit ==
    ConcIngestInit /\ ExtractIdle /\ TitlesIdle /\ RagIdle /\ StepsIdle

ConcNext ==
    \/ WriteFileBetween
    \/ \E p \in Jobs : JobStep(p)

SpecConc == ConcInit /\ [][ConcNext]_vars

\* One run of DYN_weekly_case_export.py or of 01_get_knowledge.py.
InitExtract ==
    ExtractInit /\ IngestIdle /\ TitlesIdle /\ RagIdle /\ StepsIdle

SpecExtract == InitExtract /\ [][ExtractNext]_vars

\* One call of get_candidate_titles.
InitTitles ==
    TitlesInit /\ IngestIdle /\ ExtractIdle /\ RagIdle /\ StepsIdle

SpecTitles == InitTitles /\ [][TitlesNext]_vars

\* One call of the tool rag_with_reasoner.
InitRag == RagInit /\ IngestIdle /\ ExtractIdle /\ TitlesIdle /\ StepsIdle

SpecRag == InitRag /\ [][RagNext]_vars

\* The summary step of one page, in either exporter.
InitSummary == SummaryInit /\ PipelineIdle /\ CleanIdle /\ FieldsIdle /\ HtmlIdle

SpecSummary == InitSummary /\ [][SummaryNext]_vars

\* clean_html applied to a text and to its own result.
InitClean == CleanInit /\ PipelineIdle /\ SummaryIdle /\ FieldsIdle /\ HtmlIdle

SpecClean == InitClean /\ [][CleanNext]_vars

\* The loop over the key = value pairs of one page, in either exporter.
InitFields == FieldsInit /\ PipelineIdle /\ SummaryIdle /\ CleanIdle /\ HtmlIdle

SpecFields == InitFields /\ [][FieldsNext]_vars

\* One call of extract_sections_from_html.
InitHtml == HtmlInit /\ PipelineIdle /\ SummaryIdle /\ CleanIdle /\ FieldsIdle

SpecHtml == InitHtml /\ [][HtmlNext]_vars

\* ===================================================================== claims

BatchIds(cs) == {cs[i].metadata.id : i \in 1..Len(cs)}

BatchContents(cs, id) ==
    {cs[i].page_content : i \in {j \in 1..Len(cs) : cs[j].metadata.id = id}}

ContentsFor(coll, id) == {e.content : e \in {x \in coll : x.id = id}}

CountOf(coll, id, c) == Cardinality({e \in coll : e.id = id /\ e.content = c})

AllContents == {e.content : e \in index} \cup {e.content : e \in lastRun.index}

AfterDelete == {"add", "persist", "done"}

AfterInsert == {"persist", "done"}

DeletesOf(run) == {i \in 1..Len(deleteLog) : deleteLog[i].run = run}

\* C1. Upsert correctness: when a reconciliation that found a persisted index
\* with chunks for a non-empty id X returns, and its batch holds a different
\* chunk set for X, the index holds exactly the batch's chunks for X, and the
\* entries of every id that is not in the batch are what they were.
C1_UpsertCorrect ==
    \A p \in Jobs :
        (pc[p] = "done" /\ outcome[p] = "returned" /\ existed[p]) =>
            /\ \A id \in BatchIds(chunks[p]) \ {""} :
                   ( /\ ContentsFor(startIndex[p], id) # {}
                     /\ ContentsFor(startIndex[p], id)
                            # BatchContents(chunks[p], id) )
                   => ContentsFor(index, id) = BatchContents(chunks[p], id)
            /\ {e \in index : e.id \notin BatchIds(chunks[p])}
                   = {e \in startIndex[p] : e.id \notin BatchIds(chunks[p])}

\* C2. Idempotent ingestion: when a run that read the same file as the run
\* before it is done, the index holds, for every id, each chunk as many times
\* as after the run before it.
C2_Idempotent ==
    \A p \in Jobs :
        ( /\ pc[p] = "done"
          /\ lastRun.run # 0
          /\ fileRead[p] = lastRun.file
          /\ startIndex[p] = lastRun.index )
        => \A id \in DocIds : \A c \in AllContents :
               CountOf(index, id, c) = CountOf(lastRun.index, id, c)

\* C3. No delete call is passed an empty id or an empty id list; a run whose
\* batch has no non-empty id issues no delete; and past the delete step every
\* entry the run found whose id is not a non-empty id of the batch is still
\* in the index.
C3_NoEmptyIdDelete ==
    /\ \A i \in 1..Len(deleteLog) :
           deleteLog[i].ids # <<>> /\ "" \notin Range(deleteLog[i].ids)
    /\ \A p \in Jobs :
           pc[p] \in AfterDelete =>
               /\ (BatchIds(chunks[p]) \subseteq {""}) => DeletesOf(runId[p]) = {}
               /\ \A e \in startIndex[p] :
                      e.id \notin (BatchIds(chunks[p]) \ {""}) => e \in index

\* C3 witness: a run over a batch with an empty-id chunk and a chunk with an
\* id is done, it issued a delete, and it had found empty-id entries.
C3_Witness ==
    \E p \in Jobs :
        /\ pc[p] = "done"
        /\ "" \in BatchIds(chunks[p])
        /\ BatchIds(chunks[p]) \ {""} # {}
        /\ DeletesOf(runId[p]) # {}
        /\ \E e \in startIndex[p] : e.id = ""

\* C4. A run whose persist step failed does not return normally.
C4_PersistFailureFatal ==
    \A p \in Jobs :
        (pc[p] = "done" /\ persistFailed[p]) => outcome[p] # "returned"

\* The entries a run inserted.
InsertedBy(run) == {e \in index : e.run = run}

BatchInserted(p) ==
    /\ Cardinality(InsertedBy(runId[p])) = Len(chunks[p])
    /\ \A i \in 1..Len(chunks[p]) :
           \E e \in InsertedBy(runId[p]) :
               /\ e.content = chunks[p][i].page_content
               /\ e.id = chunks[p][i].metadata.id

\* C5 as stated: a run is never aborted by its delete step, after the delete
\* raised every chunk of the batch is inserted and the run returns, and a run
\* that found an index without content issues no delete and leaves an index
\* that holds its batch and nothing else.
C5_SkippedWithoutContent ==
    \A p \in Jobs :
        /\ pc[p] # "aborted"
        /\ deleteRaised[p] => pc[p] \in AfterDelete
        /\ (deleteRaised[p] /\ pc[p] = "done") => outcome[p] = "returned"
        /\ (deleteRaised[p] /\ pc[p] \in AfterInsert) => BatchInserted(p)
        /\ (pc[p] \in AfterInsert /\ startIndex[p] = {}) =>
               /\ DeletesOf(runId[p]) = {}
               /\ BatchInserted(p)
               /\ index = InsertedBy(runId[p])

\* C5, amended. A run is never aborted by its delete step: after the delete
\* raised the run is at the insert, at the persist step or done (and then it
\* returned normally), and from the persist step on every chunk of the batch
\* is in the index; a run that found no persist directory issues no delete
\* and, at the persist step and after, the index it left holds its batch and
\* nothing else.
C5_DeleteErrorNotFatal ==
    \A p \in Jobs :
        /\ pc[p] # "aborted"
        /\ deleteRaised[p] => pc[p] \in AfterDelete
        /\ (deleteRaised[p] /\ pc[p] = "done") => outcome[p] = "returned"
        /\ (deleteRaised[p] /\ pc[p] \in AfterInsert) => BatchInserted(p)
        /\ (pc[p] \in AfterInsert /\ ~existed[p]) =>
               /\ DeletesOf(runId[p]) = {}
               /\ BatchInserted(p)
               /\ index = InsertedBy(runId[p])

\* C5 witness: a run whose delete raised is done with a non-empty batch, in
\* an index that the first run initialized.
C5_Witness ==
    \E p \in Jobs :
        /\ pc[p] = "done"
        /\ deleteRaised[p]
        /\ Len(chunks[p]) > 0
        /\ InsertedBy(1) # {}

\* The non-empty ids the batches of two runs share.
SharedIds(p, q) == (BatchIds(chunks[p]) \cap BatchIds(chunks[q])) \ {""}

\* C6. Two reconciliations that share a document id are serialized: they are
\* never both between their delete and their insert, and when both are done
\* the index holds for a shared id the chunks of exactly one run.
C6_Serialized ==
    \A p \in Jobs : \A q \in Jobs \ {p} :
        /\ (pc[p] = "add" /\ pc[q] = "add") => SharedIds(p, q) = {}
        /\ (pc[p] = "done" /\ pc[q] = "done") =>
               \A id \in SharedIds(p, q) :
                   Cardinality({e.run : e \in {x \in index : x.id = id}}) = 1

\* C7. A transport failure of a per-title source call never ends the run: no
\* run is ended by one, and a run that is done has written its output and
\* holds a record for every title whose calls all succeeded.
C7_TitleFailureSkipped ==
    /\ xerr # "transport"
    /\ failed # {} => xpc \in {"loop", "done"}
    /\ xpc = "done" =>
           /\ output.written
           /\ \A i \in (1..Len(xtitles)) \ failed :
                  \E j \in 1..Len(results) :
                      results[j].title = TitleOf(xtitles[i])

RECURSIVE Flatten(_)
Flatten(rs) ==
    IF rs = <<>> THEN <<>>
    ELSE [i \in 1..Len(Head(rs).titles) |-> TitleOf(Head(rs).titles[i])]
             \o Flatten(Tail(rs))

Received(k) == Flatten(SubSeq(responses, 1, k))

\* C8. get_candidate_titles sends the first request without a token and
\* every later one with the token of the response before it; a request
\* follows a response only if that response carried a token and the titles
\* received up to it were fewer than the cap; the loop goes on after a
\* response exactly then; and the titles are those received, in order.
C8_Pagination ==
    /\ Len(requests) \in {Len(responses), Len(responses) + 1}
    /\ Len(requests) = Len(responses) + 1 => tpc = "raised"
    /\ \A k \in 1..Len(requests) :
           requests[k] = IF k = 1 THEN None ELSE responses[k - 1].token
    /\ \A k \in 2..Len(requests) :
           /\ responses[k - 1].token # None
           /\ Len(Received(k - 1)) < limit_pages
    /\ (tpc = "returned") =>
           /\ responses # <<>>
           /\ \/ responses[Len(responses)].token = None
              \/ Len(Received(Len(responses))) >= limit_pages
    /\ (tpc = "loop" /\ responses # <<>>) =>
           /\ responses[Len(responses)].token # None
           /\ Len(Received(Len(responses))) < limit_pages
    /\ titles = Received(Len(responses))

\* C8 witness: a call that returned after three requests because the cap was
\* reached, the last response still carrying a token.
C8_Witness ==
    /\ tpc = "returned"
    /\ Len(requests) = 3
    /\ responses[Len(responses)].token # None
    /\ Len(titles) >= limit_pages

DistinctIds == {docs[i].metadata.id : i \in 1..Len(docs)}

\* The chunks of docs with id, in retrieval rank order.
ChunksOfId(id) ==
    LET mine == SelectSeq(docs, LAMBDA d : d.metadata.id = id)
    IN  [i \in 1..Len(mine) |-> mine[i].page_content]

\* C9. A call that returned built one group per distinct id of the retrieved
\* chunks, and the content of each group is made of the first two chunks
\* (the only one, if there is one) retrieved for its id.
C9_GroupsById ==
    rpc = "returned" =>
        /\ Len(rag.groups) = Cardinality(DistinctIds)
        /\ \A g \in 1..Len(rag.groups) :
               LET cs == ChunksOfId(rag.groups[g].id) IN
               rag.groups[g].content =
                   Join(SubSeq(cs, 1, IF Len(cs) < 2 THEN Len(cs) ELSE 2),
                        "\n\n[...continued...]\n\n")

\* C10. A call whose search returned no chunk returns an explicit
\* empty-result value: it does not raise, and it does not call the
\* generation model with an empty context.
C10_EmptyResultReported ==
    (rpc # "idle" /\ docs = <<>>) =>
        /\ rpc = "returned"
        /\ ~(rag.modelCalled /\ rag.contextEmpty)

\* C11. Identity assignment: no record a run has built has an empty id; the
\* record of the page "Article 17 GDPR" has id "article17", article_number
\* "17" and the url of that title; and no run is ended by a record that has
\* no identity (the TypeError of "article" + None), so no other record of
\* the run is lost.
C11_IdentityAssigned ==
    /\ \A i \in 1..Len(results) :
           /\ results[i].id # ""
           /\ (program = "articles"
                 /\ results[i].title = "Article 17 GDPR") =>
                  /\ results[i].id = "article17"
                  /\ results[i].article_number = "17"
                  /\ results[i].url = BASE_URL \o "Article_17_GDPR"
    /\ xerr # "TypeError"

\* The heading the summary is taken from: the first whose line has the marker.
MarkerHeadings(sections) ==
    {i \in 1..Len(sections) : HasMarker(sections[i].line)}

FirstMarker(sections) ==
    CHOOSE i \in MarkerHeadings(sections) :
        \A j \in MarkerHeadings(sections) : i <= j

\* The summary field of the record: "text", or "Summary" in get_page_data.
SummaryField(rec) ==
    IF sVariant = "DYN" THEN rec.text
    ELSE IF "Summary" \in DOMAIN rec THEN rec["Summary"] ELSE None

\* C12. When the summary step has returned for a section list with no
\* heading containing "English Summary", the record's text is the empty
\* string and no text was requested; when headings contain the marker and
\* the text request did not fail, the text of the first of them in list
\* order was requested and the record's text is that text, cleaned.
C12_MissingSummaryEmpty ==
    sPc \in {"done", "caught"} =>
        /\ MarkerHeadings(sSections) = {} =>
               /\ SummaryField(sRecord) = ""
               /\ sRequests = <<>>
        /\ (MarkerHeadings(sSections) # {} /\ sPc = "done") =>
               LET first == sSections[FirstMarker(sSections)].index IN
               /\ sRequests = <<first>>
               /\ first \in SummaryIndexes
               /\ SummaryField(sRecord) = Concat(clean_html(sTexts[first]))

\* C13. Markup stripping is idempotent: once clean_html has been applied to
\* a text and then to its own result, the two results are the same string.
C13_CleanIdempotent ==
    cPc = "twice" => Concat(cTwice) = Concat(cOnce)

\* The pairs among the first n with key k whose value is not empty.
NonEmptyPairs(k, n) ==
    {i \in 1..n : fParams[i].key = k /\ ValueOf(fParams[i].val) # ""}

LastNonEmpty(k, n) ==
    IF NonEmptyPairs(k, n) = {} THEN ""
    ELSE ValueOf(fParams[CHOOSE i \in NonEmptyPairs(k, n) :
                            \A j \in NonEmptyPairs(k, n) : j <= i].val)

\* The field of the record a key is mapped to.
FieldValue(k) ==
    IF fVariant = "legacy"
    THEN IF k \in DOMAIN fState THEN fState[k] ELSE ""
    ELSE IF k = "ECLI" THEN fState.rec.id ELSE fState.rec.fine

\* The values of the pairs of the repeatable family taken so far.
ArticlesTaken(n) ==
    LET taken == SelectSeq([i \in 1..n |-> fParams[i]],
                    LAMBDA q : q.key = "GDPR Article 1"
                                 /\ ValueOf(q.val) # "")
    IN  [i \in 1..Len(taken) |-> ValueOf(taken[i].val)]

\* C14. At every turn of the loop over the pairs, each known field holds
\* the value of the last pair taken so far for its key whose trimmed,
\* bracket-stripped value is not empty ("" when there is none), and the
\* collected articles are the non-empty values of their pairs: a pair with
\* an empty value has changed nothing.
C14_EmptyNeverOverwrites ==
    fPc \in {"loop", "done"} =>
        /\ \A k \in {"ECLI", "Fine"} : FieldValue(k) = LastNonEmpty(k, fIdx)
        /\ fVariant = "DYN" =>
               /\ fState.rec.article_number = fState.rec.id
               /\ fState.temp_articles = ArticlesTaken(fIdx)
               /\ fPc = "done" =>
                      fState.rec.gdpr_articles = Range(ArticlesTaken(fIdx))
        /\ fVariant = "legacy" =>
               FieldValue("GDPR Article 1")
                   = LastNonEmpty("GDPR Article 1", fIdx)

\* C14 happens: the loop is over, and a known key had a pair with a value
\* and, later, a pair with an empty value.
C14_Witness ==
    /\ fPc = "done"
    /\ \E i, j \in 1..Len(fParams) :
          /\ i < j
          /\ fParams[i].key = "ECLI"
          /\ fParams[j].key = "ECLI"
          /\ ValueOf(fParams[i].val) # ""
          /\ ValueOf(fParams[j].val) = ""
          /\ FieldValue("ECLI") = ValueOf(fParams[i].val)

IsHeading(el) == el.name \in {"h2", "h3"}

\* The non-empty texts of the paragraphs and list items from position i up
\* to the next heading.
RECURSIVE RunFrom(_, _)
RunFrom(els, i) ==
    IF i > Len(els) \/ IsHeading(els[i]) THEN <<>>
    ELSE (IF els[i].text # "" THEN <<els[i].text>> ELSE <<>>)
             \o RunFrom(els, i + 1)

\* Where a section may start: 0 is the start of the page, the others are the
\* positions of the headings; those followed by a non-empty text emit one.
Emitting(els) ==
    {o \in {0} \cup {i \in 1..Len(els) : IsHeading(els[i])} :
        RunFrom(els, o + 1) # <<>>}

\* The k-th of them in document order.
EmittingAt(els, k) ==
    CHOOSE o \in Emitting(els) :
        Cardinality({x \in Emitting(els) : x < o}) = k - 1

\* C15. The sections extract_sections_from_html returns are, in document
\* order, one per start (page start or heading) that is followed by a
\* non-empty text before the next heading: the one of the page start is
\* titled "Intro", every other carries the text of its heading, the text of
\* each is not empty and is the non-empty texts of its elements joined, so
\* every non-empty text element is in exactly one section.
C15_SectionsInOrder ==
    hPc = "returned" =>
        /\ Len(hSections) = Cardinality(Emitting(hEls))
        /\ \A k \in 1..Len(hSections) :
               LET o == EmittingAt(hEls, k) IN
               /\ hSections[k].text # ""
               /\ hSections[k].text = Join(RunFrom(hEls, o + 1), " ")
               /\ hSections[k].section_title =
                      IF o = 0 THEN "Intro" ELSE hEls[o].text

\* C15 happens: a page with text before its first heading, a heading with
\* no text under it and a heading with text under it has been extracted.
C15_Witness ==
    /\ hPc = "returned"
    /\ Len(hSections) = 2
    /\ hSections[1].section_title = "Intro"
    /\ \E i \in 1..Len(hEls) :
          IsHeading(hEls[i]) /\ RunFrom(hEls, i + 1) = <<>>
====
